---- MODULE Spec2Model ----
(***************************************************************************)
(* Model of demos/text_detection_demo/main.cpp: the command-line checks,   *)
(* the frame loop of main (detector, region cap, per-region crop,          *)
(* recognition, threshold, raw output, display), the closing statistics,   *)
(* and the helpers clip, floatPointsFromRotatedRect, topLeftPoint and      *)
(* cropImage.                                                              *)
(*                                                                         *)
(* Float coordinates (cv::Point2f) are integers in half-pixel units: the   *)
(* value v stands for v/2 pixels, so that the truncation of                *)
(* static_cast<int> and the rounding of the cv::Point conversion are       *)
(* visible.  Sizes of rectangles and images are in pixels.                 *)
(***************************************************************************)
EXTENDS Integers, Sequences, FiniteSets, TLC

VARIABLES
    FLAGS,          \* the gflags values of the run
    tr_width,       \* output_shape[2] of the recognition model
    pc,             \* position of main
    exit_code,      \* "running", "EXIT_SUCCESS" or "EXIT_FAILURE"
    cerr,           \* which exception reached the catch of main ("" if none)
    grab_calls,     \* calls of Grabber::GrabNextImage so far
    nGrabbed,       \* non-empty frames delivered so far
    image,          \* cv::Mat image (its size; cols = 0 when empty)
    detected,       \* rects as returned by the detector / the sentinel, before the cap
    rects,          \* std::vector<cv::RotatedRect> rects after the cap
    ridx,           \* regions of the current frame already iterated over
    num_found,
    points,         \* std::vector<cv::Point2f> points of the last region
    top_left_point_idx,
    tl_ret,         \* value returned by the last call of topLeftPoint
    cropped_text,   \* what the last region handed to the recognizer
    decoded,        \* result of the last CTCGreedyDecoder call: [s, conf]
    res,            \* std::string res of the last region
    out,            \* raw lines written to std::cout for the current frame
    emitted,        \* a raw line was written to std::cout in this run
    displayed,      \* a frame was passed to cv::imshow in this run
    td_ncalls,      \* text_detection.ncalls()
    tr_ncalls,      \* text_recognition.ncalls()
    text_detection_postproc_time,
    text_recognition_postproc_time,
    text_crop_time

vars == <<FLAGS, tr_width, pc, exit_code, cerr, grab_calls, nGrabbed, image,
          detected, rects, ridx, num_found, points, top_left_point_idx, tl_ret,
          cropped_text, decoded, res, out, emitted, displayed, td_ncalls,
          tr_ncalls, text_detection_postproc_time,
          text_recognition_postproc_time, text_crop_time>>

(***************************************************************************)
(* Bounds of the model.                                                    *)
(***************************************************************************)
\* frames the image source delivers at most
MaxFrames == 2
\* rectangles the detector returns for one frame at most
MaxRects == 2
\* corner coordinates (half pixels) of the inputs of topLeftPoint: 0..MaxCoord
MaxCoord == 2
\* rectangles of the inputs of the region cap taken alone at most
MaxCapRects == 3

(***************************************************************************)
(* Inputs.                                                                 *)
(***************************************************************************)
kPadSymbol == "#"

\* values of -m_tr_ss, as sequences of characters
SymbolSets == {<<"a", "b">>, <<"a", "#">>}

\* output widths of the recognition model
Widths == {3, 4}

\* confidences returned by the decoder and values of -thr, in the same unit
Confs == {1, 2}
Thresholds == {1, 2}

\* strings the decoder returns
Strings == {"", "ab"}

\* values of -max_rect_num
MaxRectNums == -1 .. (MaxRects - 1)

\* sizes of the frames the image source delivers
ImageSizes == {[cols |-> 40, rows |-> 20], [cols |-> 80, rows |-> 1]}

EmptyImage == [cols |-> 0, rows |-> 0]

\* increments of the timers: a measured duration, truncated to the unit
TimeTicks == {0, 1}

\* cv::RotatedRect values the detector returns: center in half pixels,
\* size in pixels, angle in degrees
RectPool ==
    { [cx |-> 1, cy |-> 1, w |-> 2, h |-> 4, angle |-> -90],
      [cx |-> 77, cy |-> 37, w |-> 10, h |-> 6, angle |-> 0] }

RECURSIVE SeqsUpTo(_, _)
SeqsUpTo(S, n) ==
    IF n = 0 THEN {<<>>}
    ELSE LET shorter == SeqsUpTo(S, n - 1)
         IN shorter \cup {Append(s, x) : s \in {t \in shorter : Len(t) = n - 1}, x \in S}

\* results of postProcess for one frame
DetectorOutputs == SeqsUpTo(RectPool, MaxRects)

\* results of CTCGreedyDecoder: the string and the confidence written to *conf
DecoderOutputs == [s : Strings, conf : Confs]

NoDecode == [s |-> "", conf |-> 1]
NoCrop == [kind |-> "none"]
NoPoint == [x |-> 0, y |-> 0]

(***************************************************************************)
(* Arithmetic helpers.                                                     *)
(***************************************************************************)
Min(a, b) == IF a < b THEN a ELSE b
Max(a, b) == IF a > b THEN a ELSE b

\* static_cast<int> of a float given in half units: truncation toward zero
StaticCastInt(v) == IF v >= 0 THEN v \div 2 ELSE -((-v) \div 2)

\* cv::Point_<int>(cv::Point2f): saturate_cast<int> rounds to nearest, ties to even
SaturateCastInt(v) ==
    IF v % 2 = 0 THEN v \div 2
    ELSE LET lo == (v - 1) \div 2 IN IF lo % 2 = 0 THEN lo ELSE lo + 1

\* the lower bound left out
clipMut(x, max_val) == Min(x, max_val)

clip(x, max_val) == Min(Max(x, 0), max_val)

\* the measured times are only ever compared with zero: 1 stands for "positive"
AddTime(t, d) == IF t + d > 0 THEN 1 ELSE 0

\* Cnn::ncalls after one more call; main only tests it against zero, so 1
\* stands for "at least one call"
OneMoreCall(n) == IF n + 1 > 0 THEN 1 ELSE 0

(***************************************************************************)
(* Geometry helpers.                                                       *)
(***************************************************************************)
Pt(x, y) == [x |-> x, y |-> y]

\* std::numeric_limits<float>::max(), above every coordinate of the model
FLT_MAX == 1000

\* the rectangle main uses when no detector is configured
Sentinel == [cx |-> 0, cy |-> 0, w |-> 0, h |-> 0, angle |-> 0]

\* rect.size.area()
Area(rect) == rect.w * rect.h

\* cv::RotatedRect::points for angles of 0 and -90 degrees, where the sine and
\* the cosine are exact: bottom-left, top-left, top-right, bottom-right
RotatedRectPoints(rect) ==
    LET p0 == IF rect.angle = 0
              THEN Pt(rect.cx - rect.w, rect.cy + rect.h)
              ELSE Pt(rect.cx + rect.h, rect.cy + rect.w)
        p1 == IF rect.angle = 0
              THEN Pt(rect.cx - rect.w, rect.cy - rect.h)
              ELSE Pt(rect.cx - rect.h, rect.cy + rect.w)
    IN <<p0, p1,
         Pt(2 * rect.cx - p0.x, 2 * rect.cy - p0.y),
         Pt(2 * rect.cx - p1.x, 2 * rect.cy - p1.y)>>

floatPointsFromRotatedRect(rect) ==
    LET vertices == RotatedRectPoints(rect)
    IN [i \in 1 .. 4 |-> Pt(vertices[i].x, vertices[i].y)]

\* state of the scan of topLeftPoint before its loop
TLPInit ==
    [most_left |-> Pt(FLT_MAX, FLT_MAX), almost_most_left |-> Pt(FLT_MAX, FLT_MAX),
     most_left_idx |-> -1, almost_most_left_idx |-> -1]

\* one iteration of the loop of topLeftPoint, on the element of index i (from 0)
TLPStep(s, pts, i) ==
    LET p == pts[i + 1]
        s1 == IF s.most_left.x > p.x
              THEN [most_left |-> p,
                    most_left_idx |-> i,
                    almost_most_left |->
                        IF s.most_left.x # FLT_MAX THEN s.most_left ELSE s.almost_most_left,
                    almost_most_left_idx |->
                        IF s.most_left.x # FLT_MAX THEN s.most_left_idx
                        ELSE s.almost_most_left_idx]
              ELSE s
    IN IF s1.almost_most_left.x > p.x /\ p # s1.most_left
       THEN [s1 EXCEPT !.almost_most_left = p, !.almost_most_left_idx = i]
       ELSE s1

RECURSIVE TLPLoop(_, _, _)
TLPLoop(s, pts, i) ==
    IF i >= Len(pts) THEN s ELSE TLPLoop(TLPStep(s, pts, i), pts, i + 1)

\* the comparison by y left out
TLPFinalMut(s) == s

\* the comparison after the loop: the upper of the two left-most points
TLPFinal(s) ==
    IF s.almost_most_left.y < s.most_left.y
    THEN [s EXCEPT !.most_left = s.almost_most_left,
                   !.most_left_idx = s.almost_most_left_idx]
    ELSE s

\* topLeftPoint: idx is the value written to *idx, most_left the point chosen,
\* ret the cv::Point returned
topLeftPoint(pts) ==
    LET s == TLPFinal(TLPLoop(TLPInit, pts, 0))
    IN [idx |-> s.most_left_idx,
        most_left |-> s.most_left,
        ret |-> Pt(SaturateCastInt(s.most_left.x), SaturateCastInt(s.most_left.y))]

\* cropImage: the three source points of the affine transform and the target
\* they are mapped to; the crop is the image warped by that transform
cropImage(img, pts, top_left_idx) ==
    [kind |-> "warp",
     from |-> <<pts[top_left_idx + 1],
                pts[((top_left_idx + 1) % 4) + 1],
                pts[((top_left_idx + 2) % 4) + 1]>>]

\* the window put at the top-left corner of the image
CenterRectMut(img) ==
    [kind |-> "roi", x |-> 0, y |-> 0, w |-> img.cols \div 20, h |-> (img.cols \div 20) \div 2]

\* the fixed centre window of lines 173-177: cv::Rect r(tl_x, tl_y, w, h)
CenterRect(img) ==
    LET w == img.cols \div 20
        h == w \div 2
    IN [kind |-> "roi",
        x |-> StaticCastInt(img.cols - w),
        y |-> StaticCastInt(img.rows - h),
        w |-> w, h |-> h]

\* cv::Mat::operator()(cv::Rect) throws unless the window lies in the image
RoiInside(img, r) ==
    /\ 0 <= r.x /\ 0 <= r.w /\ r.x + r.w <= img.cols
    /\ 0 <= r.y /\ 0 <= r.h /\ r.y + r.h <= img.rows

(***************************************************************************)
(* Helpers of main.                                                        *)
(***************************************************************************)
\* the check of the symbol set left out
HasPadSymbolMut(ss) == FALSE

\* FLAGS_m_tr_ss.find(kPadSymbol) != npos
HasPadSymbol(ss) == \E i \in 1 .. Len(ss) : ss[i] = kPadSymbol

kAlphabet == Append(FLAGS.m_tr_ss, kPadSymbol)

\* the comparison turned around
RectBeforeMut(a, b) == Area(a) < Area(b)

\* the comparator handed to std::sort
RectBefore(a, b) == Area(a) > Area(b)

\* what std::sort may leave: any permutation in which no later element comes
\* before an earlier one (the order of equal areas is the library's choice)
SortOutcomes(s) ==
    LET n == Len(s)
        perms == {[i \in 1 .. n |-> s[p[i]]] : p \in Permutations(1 .. n)}
    IN {t \in perms : \A i, j \in 1 .. n : i < j => ~RectBefore(t[j], t[i])}

\* lines 150-155: the rectangles a frame keeps
CapOutcomes(rs, max_rect_num) ==
    IF max_rect_num >= 0 /\ Len(rs) > max_rect_num
    THEN {SubSeq(t, 1, max_rect_num) : t \in SortOutcomes(rs)}
    ELSE {rs}

\* the check of the output width left out
AlphabetMatchesMut(width) == TRUE

\* line 191, negated: the recognizer's output width is the alphabet's length
AlphabetMatches(width) == width = Len(kAlphabet)

\* the boundary excluded
ThresholdMut(s, c, min_conf) == IF c > min_conf THEN s ELSE ""

\* line 202
Threshold(s, c, min_conf) == IF c >= min_conf THEN s ELSE ""

\* lines 207-212: the numbers of a raw line, x then y of every point
RawCoords(pts, img) ==
    [k \in 1 .. 2 * Len(pts) |->
        IF k % 2 = 1
        THEN clip(StaticCastInt(pts[(k + 1) \div 2].x), img.cols - 1)
        ELSE clip(StaticCastInt(pts[k \div 2].y), img.rows - 1)]

\* lines 206-219: one line of raw output
RawLine(pts, img, text) ==
    [coords |-> RawCoords(pts, img), has_text |-> FLAGS.m_tr,
     text |-> IF FLAGS.m_tr THEN text ELSE ""]

\* the catch of main: the message goes to std::cerr, main returns EXIT_FAILURE
Throw(what) ==
    /\ pc' = "done"
    /\ exit_code' = "EXIT_FAILURE"
    /\ cerr' = what

\* Grabber::GrabNextImage followed by the test of the while loop
GrabNextImage(img) ==
    /\ image' = img
    /\ grab_calls' = grab_calls + 1
    /\ nGrabbed' = IF img = EmptyImage THEN nGrabbed ELSE nGrabbed + 1
    /\ pc' = IF img = EmptyImage THEN "stats" ELSE "frame"

\* what the image source may deliver next
NextImages == IF nGrabbed < MaxFrames THEN ImageSizes \cup {EmptyImage} ELSE {EmptyImage}

configVars == <<FLAGS, tr_width>>
frameVars == <<detected, rects, ridx, num_found, out>>
regionVars == <<points, top_left_point_idx, tl_ret, cropped_text, decoded, res>>
countVars == <<emitted, displayed, td_ncalls, tr_ncalls>>
timeVars == <<text_detection_postproc_time, text_recognition_postproc_time, text_crop_time>>
grabVars == <<grab_calls, nGrabbed, image>>

(***************************************************************************)
(* The run.                                                                *)
(***************************************************************************)
Idle ==
    /\ exit_code = "running"
    /\ cerr = ""
    /\ grab_calls = 0
    /\ nGrabbed = 0
    /\ image = EmptyImage
    /\ detected = <<>>
    /\ rects = <<>>
    /\ ridx = 0
    /\ num_found = 0
    /\ top_left_point_idx = 0
    /\ tl_ret = NoPoint
    /\ cropped_text = NoCrop
    /\ decoded = NoDecode
    /\ res = ""
    /\ out = <<>>
    /\ emitted = FALSE
    /\ displayed = FALSE
    /\ td_ncalls = 0
    /\ tr_ncalls = 0
    /\ text_detection_postproc_time = 0
    /\ text_recognition_postproc_time = 0
    /\ text_crop_time = 0

Init ==
    /\ FLAGS \in [h : BOOLEAN, i_empty : BOOLEAN, m_td : BOOLEAN, m_tr : BOOLEAN,
                  m_tr_ss : SymbolSets, r : BOOLEAN, no_show : BOOLEAN, cc : BOOLEAN,
                  max_rect_num : MaxRectNums, thr : Thresholds]
    /\ tr_width \in Widths
    /\ pc = "main"
    /\ points = <<>>
    /\ Idle

\* lines 41-58 and 70-72
ParseAndCheckCommandLine ==
    /\ pc = "main"
    /\ IF FLAGS.h
       THEN /\ pc' = "done"
            /\ exit_code' = "EXIT_SUCCESS"
            /\ cerr' = cerr
       ELSE IF FLAGS.i_empty
       THEN Throw("Parameter -i is not set")
       ELSE IF ~FLAGS.m_td /\ ~FLAGS.m_tr
       THEN Throw("Neither parameter -m_td nor -m_tr is not set")
       ELSE /\ pc' = "pad_check"
            /\ UNCHANGED <<exit_code, cerr>>
    /\ UNCHANGED <<configVars, grabVars, frameVars, regionVars, countVars, timeVars>>

\* lines 80-84
CheckPadSymbol ==
    /\ pc = "pad_check"
    /\ IF HasPadSymbol(FLAGS.m_tr_ss)
       THEN Throw("Symbols set for Text Recongition model must not contain reserved symbol '#'")
       ELSE /\ pc' = "init"
            /\ UNCHANGED <<exit_code, cerr>>
    /\ UNCHANGED <<configVars, grabVars, frameVars, regionVars, countVars, timeVars>>

\* lines 88-132: plugins, models and grabber are set up (any of these calls may
\* throw), then the first image is grabbed
InitAndGrab ==
    /\ pc = "init"
    /\ \/ /\ Throw("initialization failed")
          /\ UNCHANGED grabVars
       \/ /\ \E img \in NextImages : GrabNextImage(img)
          /\ UNCHANGED <<exit_code, cerr>>
    /\ UNCHANGED <<configVars, frameVars, regionVars, countVars, timeVars>>

\* lines 135-157: the detector (or the sentinel), the cap, num_found
FrameBegin ==
    /\ pc = "frame"
    /\ IF FLAGS.m_td
       THEN \/ /\ Throw("text detection inference failed")
               /\ UNCHANGED <<frameVars, td_ncalls, text_detection_postproc_time>>
            \/ \E found \in DetectorOutputs, d \in TimeTicks :
                 \E kept \in CapOutcomes(found, FLAGS.max_rect_num) :
                    /\ detected' = found
                    /\ rects' = kept
                    /\ td_ncalls' = OneMoreCall(td_ncalls)
                    /\ text_detection_postproc_time' =
                           AddTime(text_detection_postproc_time, d)
                    /\ num_found' = IF FLAGS.m_tr THEN 0 ELSE Len(kept)
                    /\ ridx' = 0
                    /\ out' = <<>>
                    /\ pc' = "region"
                    /\ UNCHANGED <<exit_code, cerr>>
       ELSE \E kept \in CapOutcomes(<<Sentinel>>, FLAGS.max_rect_num) :
               /\ detected' = <<Sentinel>>
               /\ rects' = kept
               /\ num_found' = IF FLAGS.m_tr THEN 0 ELSE Len(kept)
               /\ ridx' = 0
               /\ out' = <<>>
               /\ pc' = "region"
               /\ UNCHANGED <<exit_code, cerr, td_ncalls, text_detection_postproc_time>>
    /\ UNCHANGED <<configVars, grabVars, regionVars, emitted, displayed, tr_ncalls,
                   text_recognition_postproc_time, text_crop_time>>

\* rect.size != cv::Size2f(0, 0) && text_detection.is_initialized()
IsRectified(rect) == (rect.w # 0 \/ rect.h # 0) /\ FLAGS.m_td

\* lines 160-184: the points, the anchor index and the crop of one region;
\* ok is FALSE when image(r) throws
Crop(rect, img) ==
    IF IsRectified(rect)
    THEN LET pts == floatPointsFromRotatedRect(rect)
             tl == topLeftPoint(pts)
         IN [ok |-> TRUE, points |-> pts, idx |-> tl.idx, ret |-> tl.ret,
             crop |-> cropImage(img, pts, tl.idx)]
    ELSE IF FLAGS.cc
    THEN LET r == CenterRect(img)
         IN IF RoiInside(img, r)
            THEN [ok |-> TRUE, points |-> <<Pt(2 * r.x, 2 * r.y)>>, idx |-> 0,
                  ret |-> tl_ret, crop |-> r]
            ELSE [ok |-> FALSE, points |-> <<>>, idx |-> 0, ret |-> tl_ret,
                  crop |-> NoCrop]
    ELSE [ok |-> TRUE, points |-> <<>>, idx |-> 0, ret |-> tl_ret,
          crop |-> [kind |-> "whole"]]

\* lines 206-219
Emit(pts, text) ==
    /\ out' = IF FLAGS.r THEN Append(out, RawLine(pts, image, text)) ELSE out
    /\ emitted' = (emitted \/ FLAGS.r)

\* lines 159-230: one iteration of the loop over the rectangles of the frame
ProcessRegion ==
    /\ pc = "region"
    /\ ridx < Len(rects)
    /\ \E d1 \in TimeTicks :
         LET rect == rects[ridx + 1]
             c == Crop(rect, image)
         IN /\ points' = c.points
            /\ top_left_point_idx' = c.idx
            /\ tl_ret' = c.ret
            /\ cropped_text' = c.crop
            /\ text_crop_time' =
                   IF IsRectified(rect) THEN AddTime(text_crop_time, d1) ELSE text_crop_time
            /\ IF ~c.ok
               THEN /\ Throw("cv::Mat: the window is not inside the image")
                    /\ UNCHANGED <<decoded, res, num_found, ridx, out, emitted,
                                   tr_ncalls, text_recognition_postproc_time>>
               ELSE IF FLAGS.m_tr
               THEN \/ /\ Throw("text recognition inference failed")
                       /\ UNCHANGED <<decoded, res, num_found, ridx, out, emitted,
                                      tr_ncalls, text_recognition_postproc_time>>
                    \/ /\ ~AlphabetMatches(tr_width)
                       /\ Throw("The text recognition model does not correspond to alphabet.")
                       /\ tr_ncalls' = OneMoreCall(tr_ncalls)
                       /\ UNCHANGED <<decoded, res, num_found, ridx, out, emitted,
                                      text_recognition_postproc_time>>
                    \/ /\ AlphabetMatches(tr_width)
                       /\ \E dec \in DecoderOutputs, d2 \in TimeTicks :
                            LET text == Threshold(dec.s, dec.conf, FLAGS.thr)
                            IN /\ tr_ncalls' = OneMoreCall(tr_ncalls)
                               /\ decoded' = dec
                               /\ text_recognition_postproc_time' =
                                      AddTime(text_recognition_postproc_time, d2)
                               /\ res' = text
                               /\ num_found' = num_found + (IF text # "" THEN 1 ELSE 0)
                               /\ Emit(c.points, text)
                               /\ ridx' = ridx + 1
                               /\ UNCHANGED <<pc, exit_code, cerr>>
               ELSE /\ decoded' = NoDecode
                    /\ res' = ""
                    /\ Emit(c.points, "")
                    /\ ridx' = ridx + 1
                    /\ UNCHANGED <<pc, exit_code, cerr, num_found, tr_ncalls,
                                   text_recognition_postproc_time>>
    /\ UNCHANGED <<configVars, grabVars, detected, rects, displayed, td_ncalls,
                   text_detection_postproc_time>>

\* the locals of one iteration of the while loop, once the iteration is over
FrameScopeEnds ==
    /\ detected' = <<>>
    /\ rects' = <<>>
    /\ ridx' = 0
    /\ num_found' = 0
    /\ out' = <<>>
    /\ points' = <<>>
    /\ top_left_point_idx' = 0
    /\ tl_ret' = NoPoint
    /\ cropped_text' = NoCrop
    /\ decoded' = NoDecode
    /\ res' = ""

\* lines 232-251: the frame is shown unless -no_show; Esc leaves the loop,
\* otherwise the next image is grabbed
FrameEnd ==
    /\ pc = "region"
    /\ ridx = Len(rects)
    /\ displayed' = (displayed \/ ~FLAGS.no_show)
    /\ \/ /\ ~FLAGS.no_show
          /\ pc' = "stats"
          /\ UNCHANGED grabVars
       \/ \E img \in NextImages : GrabNextImage(img)
    /\ FrameScopeEnds
    /\ UNCHANGED <<configVars, exit_code, cerr, emitted, td_ncalls, tr_ncalls, timeVars>>

\* lines 254-281 and 288: the closing statistics
Stats ==
    /\ pc = "stats"
    /\ IF td_ncalls # 0 /\ ~FLAGS.r /\ text_detection_postproc_time = 0
       THEN Throw("text_detection_postproc_time can't be equal to zero")
       ELSE IF tr_ncalls # 0 /\ ~FLAGS.r /\ text_recognition_postproc_time = 0
       THEN Throw("text_recognition_postproc_time can't be equal to zero")
       ELSE IF tr_ncalls # 0 /\ ~FLAGS.r /\ text_crop_time = 0
       THEN Throw("text_crop_time can't be equal to zero")
       ELSE /\ pc' = "done"
            /\ exit_code' = "EXIT_SUCCESS"
            /\ cerr' = cerr
    /\ UNCHANGED <<configVars, grabVars, frameVars, regionVars, countVars, timeVars>>

Next ==
    \/ ParseAndCheckCommandLine
    \/ CheckPadSymbol
    \/ InitAndGrab
    \/ FrameBegin
    \/ ProcessRegion
    \/ FrameEnd
    \/ Stats

Spec == Init /\ [][Next]_vars

(***************************************************************************)
(* topLeftPoint taken alone: every list of 4 corners of the grid.          *)
(***************************************************************************)
DefaultFlags ==
    [h |-> FALSE, i_empty |-> FALSE, m_td |-> TRUE, m_tr |-> TRUE,
     m_tr_ss |-> <<"a", "b">>, r |-> TRUE, no_show |-> TRUE, cc |-> FALSE,
     max_rect_num |-> -1, thr |-> 1]

Grid == {Pt(x, y) : x \in 0 .. MaxCoord, y \in 0 .. MaxCoord}

InitTLP ==
    /\ FLAGS = DefaultFlags
    /\ tr_width = 3
    /\ pc = "tlp_call"
    /\ points \in [1 .. 4 -> Grid]
    /\ Idle

\* line 167: topLeftPoint(points, &top_left_point_idx)
CallTopLeftPoint ==
    /\ pc = "tlp_call"
    /\ LET tl == topLeftPoint(points)
       IN /\ top_left_point_idx' = tl.idx
          /\ tl_ret' = tl.ret
    /\ pc' = "tlp_done"
    /\ UNCHANGED <<configVars, exit_code, cerr, grabVars, frameVars, points,
                   cropped_text, decoded, res, countVars, timeVars>>

NextTLP == CallTopLeftPoint

SpecTLP == InitTLP /\ [][NextTLP]_vars

(***************************************************************************)
(* The region cap of lines 150-155 taken alone: every list of rectangles   *)
(* and every cap.                                                          *)
(***************************************************************************)
CapPool ==
    RectPool \cup { [cx |-> 20, cy |-> 20, w |-> 3, h |-> 1, angle |-> 0],
                    [cx |-> 30, cy |-> 10, w |-> 4, h |-> 2, angle |-> 0] }

InitCap ==
    /\ \E cap \in -1 .. MaxCapRects : FLAGS = [DefaultFlags EXCEPT !.max_rect_num = cap]
    /\ tr_width = 3
    /\ pc = "cap"
    /\ points = <<>>
    /\ exit_code = "running"
    /\ cerr = ""
    /\ grab_calls = 0
    /\ nGrabbed = 0
    /\ image = EmptyImage
    /\ detected \in SeqsUpTo(CapPool, MaxCapRects)
    /\ rects = detected
    /\ ridx = 0
    /\ num_found = 0
    /\ top_left_point_idx = 0
    /\ tl_ret = NoPoint
    /\ cropped_text = NoCrop
    /\ decoded = NoDecode
    /\ res = ""
    /\ out = <<>>
    /\ emitted = FALSE
    /\ displayed = FALSE
    /\ td_ncalls = 0
    /\ tr_ncalls = 0
    /\ text_detection_postproc_time = 0
    /\ text_recognition_postproc_time = 0
    /\ text_crop_time = 0

\* lines 150-155
ApplyCap ==
    /\ pc = "cap"
    /\ rects' \in CapOutcomes(rects, FLAGS.max_rect_num)
    /\ pc' = "capped"
    /\ UNCHANGED <<configVars, exit_code, cerr, grabVars, detected, ridx, num_found,
                   out, regionVars, countVars, timeVars>>

NextCap == ApplyCap

SpecCap == InitCap /\ [][NextCap]_vars

(***************************************************************************)
(* Properties.                                                             *)
(***************************************************************************)
PadMessage == "Symbols set for Text Recongition model must not contain reserved symbol '#'"
AlphabetMessage == "The text recognition model does not correspond to alphabet."

\* the symbol set holds '#', or neither model is configured
BadConfig ==
    \/ \E i \in DOMAIN FLAGS.m_tr_ss : FLAGS.m_tr_ss[i] = "#"
    \/ ~FLAGS.m_td /\ ~FLAGS.m_tr

\* no image was asked of the grabber, no model was run, nothing was written or shown
NoFrameTouched ==
    /\ grab_calls = 0
    /\ image = EmptyImage
    /\ td_ncalls = 0
    /\ tr_ncalls = 0
    /\ ~emitted
    /\ ~displayed

\* C1, as stated: a run whose symbol set contains '#', or which has neither a
\* detector nor a recognizer, ends with a failure exit before any frame is
\* grabbed, inferred on or emitted.
C1_Original ==
    BadConfig => /\ NoFrameTouched
                 /\ pc = "done" => exit_code = "EXIT_FAILURE"

\* C1, amended: such a run never gets as far as the set-up of the models and
\* touches no frame; it ends with a failure exit unless -h was given, in which
\* case it shows the usage and ends with a success exit.
C1_Amended ==
    BadConfig =>
        /\ NoFrameTouched
        /\ pc \in {"main", "pad_check", "done"}
        /\ pc = "done" =>
              exit_code = (IF FLAGS.h THEN "EXIT_SUCCESS" ELSE "EXIT_FAILURE")

\* C1, witness: a run with '#' in its symbol set was ended by the check of the
\* symbol set
C1_Witness ==
    /\ pc = "done"
    /\ ~FLAGS.h
    /\ FLAGS.m_tr
    /\ FLAGS.m_tr_ss = <<"a", "#">>
    /\ cerr = PadMessage
    /\ exit_code = "EXIT_FAILURE"

\* a recognizer is configured and its output width is not the alphabet's length
WidthMismatch == FLAGS.m_tr /\ tr_width # Len(FLAGS.m_tr_ss) + 1

\* C2, as stated: in a run with a width mismatch no frame is run through the
\* detector, displayed or emitted; the run is aborted before any frame is
\* processed.
C2_Original ==
    WidthMismatch =>
        /\ td_ncalls = 0
        /\ ~displayed
        /\ ~emitted

\* C2, amended: the mismatch is found when the first region has been run
\* through the recognizer, and the run then ends at once with a failure exit;
\* no region is decoded, counted as found or written in such a run.
C2_Amended ==
    WidthMismatch =>
        /\ ~emitted
        /\ out = <<>>
        /\ decoded = NoDecode
        /\ res = ""
        /\ num_found = 0
        /\ tr_ncalls # 0 =>
              /\ pc = "done"
              /\ exit_code = "EXIT_FAILURE"
              /\ cerr = AlphabetMessage

\* C2, witness: a frame without regions was run through the detector and shown, and the
\* first region of a later frame then met the mismatch
C2_Witness ==
    /\ WidthMismatch
    /\ td_ncalls # 0
    /\ displayed
    /\ nGrabbed > 1
    /\ pc = "done"
    /\ cerr = AlphabetMessage

\* the corner list rotated by k places
Rot(pts, k) == [i \in 1 .. 4 |-> pts[((i - 1 + k) % 4) + 1]]

Distinct(pts) == \A i, j \in 1 .. 4 : i # j => pts[i] # pts[j]

\* four distinct corners, opposite sides equal and parallel, adjacent sides
\* perpendicular
IsRectangle(pts) ==
    /\ Distinct(pts)
    /\ pts[1].x + pts[3].x = pts[2].x + pts[4].x
    /\ pts[1].y + pts[3].y = pts[2].y + pts[4].y
    /\ (pts[2].x - pts[1].x) * (pts[4].x - pts[1].x)
         + (pts[2].y - pts[1].y) * (pts[4].y - pts[1].y) = 0

\* the corner that the index written to *idx designates
Anchor == points[top_left_point_idx + 1]

\* C3: for the 4 corners of a non-degenerate rectangle, every cyclic
\* permutation of the corner list yields an anchor of the same coordinates.
C3_RotationInvariant ==
    (pc = "tlp_done" /\ IsRectangle(points)) =>
        \A k \in 1 .. 3 :
            LET tl == topLeftPoint(Rot(points, k))
            IN Rot(points, k)[tl.idx + 1] = Anchor

MinX(pts) == CHOOSE m \in {pts[i].x : i \in 1 .. 4} : \A i \in 1 .. 4 : m <= pts[i].x

\* C10, as stated: of 4 distinct corners the one of smallest x is selected;
\* only when another corner is tied with it for smallest x does the y decide,
\* among corners of smallest x. The index is in 0..3 and designates the
\* selected point.
C10_Original ==
    (pc = "tlp_done" /\ Distinct(points)) =>
        /\ top_left_point_idx \in 0 .. 3
        /\ Anchor.x = MinX(points)
        /\ (\E i \in (1 .. 4) \ {top_left_point_idx + 1} : points[i].x = MinX(points)) =>
              \E i \in (1 .. 4) \ {top_left_point_idx + 1} :
                  points[i].x = MinX(points) /\ Anchor.y <= points[i].y

\* C10, amended: the two corners of smallest x are always compared by y,
\* tied in x or not, and the one of smaller y is selected (the left-most one when
\* their y are equal). The index is in 0..3 and designates the selected point.
C10_Amended ==
    (pc = "tlp_done" /\ Distinct(points)) =>
        /\ top_left_point_idx \in 0 .. 3
        /\ topLeftPoint(points).most_left = Anchor
        /\ \E j \in (1 .. 4) \ {top_left_point_idx + 1} :
              LET q == points[j]
              IN /\ \A k \in (1 .. 4) \ {top_left_point_idx + 1, j} :
                        points[k].x >= Anchor.x /\ points[k].x >= q.x
                 /\ \/ Anchor.y < q.y
                    \/ Anchor.y = q.y /\ Anchor.x <= q.x

\* C10, witness: the anchor is not the corner of smallest x, the next one to
\* the right being higher
C10_Witness ==
    /\ pc = "tlp_done"
    /\ Distinct(points)
    /\ Anchor.x > MinX(points)
    /\ \E i \in 1 .. 4 : points[i].x = MinX(points) /\ points[i].y > Anchor.y

\* C4: when the grabber returns an empty image the run ends with a success
\* exit, whatever the configuration and the number of frames processed.
C4_StreamEndIsSuccess ==
    (pc = "done" /\ grab_calls > 0 /\ image = EmptyImage) => exit_code = "EXIT_SUCCESS"

\* C5: the string reported for a region is the decoded one when its confidence
\* is at least the minimum, the boundary included, and the empty string below
\* it; the region counts as found exactly when the reported string is not empty.
C5_ThresholdInclusive ==
    [][(pc = "region" /\ FLAGS.m_tr /\ ridx' = ridx + 1) =>
          /\ decoded'.conf >= FLAGS.thr => res' = decoded'.s
          /\ decoded'.conf < FLAGS.thr => res' = ""
          /\ num_found' = num_found + (IF res' # "" THEN 1 ELSE 0)]_vars

\* C5, witness: a string decoded with a confidence equal to the minimum was
\* reported and counted
C5_Witness ==
    /\ pc = "region"
    /\ FLAGS.m_tr
    /\ ridx > 0
    /\ decoded.conf = FLAGS.thr
    /\ decoded.s # ""
    /\ res = decoded.s
    /\ num_found > 0

\* the first n of the detected regions taken in the order of the permutation p
KeptBy(p, n) == [i \in 1 .. n |-> detected[p[i]]]

\* C6: with a cap of at least 0 and more regions than the cap, exactly cap
\* regions are kept, in descending order of area, each of an area at least
\* that of every dropped region; otherwise the list is left as detected.
C6_Cap ==
    pc = "capped" =>
        LET cap == FLAGS.max_rect_num
            n == Len(detected)
        IN IF cap >= 0 /\ n > cap
           THEN /\ Len(rects) = cap
                /\ \A i, j \in 1 .. cap : i < j => Area(rects[i]) >= Area(rects[j])
                /\ \E p \in Permutations(1 .. n) :
                      /\ rects = KeptBy(p, cap)
                      /\ \A i \in 1 .. cap, j \in (cap + 1) .. n :
                            Area(detected[p[i]]) >= Area(detected[p[j]])
           ELSE rects = detected

\* C6, witness: three regions detected in ascending order of area and a cap of 2: the two
\* largest are kept, the largest first
C6_Witness ==
    /\ pc = "capped"
    /\ FLAGS.max_rect_num = 2
    /\ Len(detected) = 3
    /\ Area(detected[1]) < Area(detected[2])
    /\ Area(detected[2]) < Area(detected[3])
    /\ rects = <<detected[3], detected[2]>>

\* e is the float v (half pixels) cut to its integer part and clamped to 0..m
IsClampedInt(e, v, m) ==
    /\ e \in 0 .. m
    /\ v < 0 => e = 0
    /\ v >= 0 => \/ 2 * e <= v /\ v <= 2 * e + 1
                 \/ e = m /\ v >= 2 * m

\* the coordinates of a raw line are those of the 4 corners of rect
IsFourCornerLine(coords, rect) ==
    /\ Len(coords) = 8
    /\ \A k \in 1 .. 4 :
          /\ IsClampedInt(coords[2 * k - 1], RotatedRectPoints(rect)[k].x, image.cols - 1)
          /\ IsClampedInt(coords[2 * k], RotatedRectPoints(rect)[k].y, image.rows - 1)

\* r is the window of a twentieth of the width and half that height, centred
IsCenterWindow(r, img) ==
    /\ 20 * r.w <= img.cols /\ img.cols < 20 * (r.w + 1)
    /\ 2 * r.h <= r.w /\ r.w < 2 * (r.h + 1)
    /\ 2 * r.x + r.w \in {img.cols - 1, img.cols}
    /\ 2 * r.y + r.h \in {img.rows - 1, img.rows}

\* C7, as stated: with raw output every processed region has exactly one line,
\* holding the clamped integer coordinates of all 4 corners in traversal
\* order, and the decoded string iff a recognizer is configured, in every
\* configuration.
C7_Original ==
    (FLAGS.r /\ pc = "region") =>
        /\ Len(out) = ridx
        /\ \A i \in 1 .. Len(out) :
              /\ IsFourCornerLine(out[i].coords, rects[i])
              /\ out[i].has_text = FLAGS.m_tr

\* C7, amended: the line of a region holds the 4 corners only when the region
\* was rectified (a detector is configured and the size of the region is not
\* zero); for the whole-frame region it holds no coordinate, or with the centre
\* crop only the top-left corner of the window.
C7_Amended ==
    /\ pc = "region" => Len(out) = (IF FLAGS.r THEN ridx ELSE 0)
    /\ \A i \in 1 .. Len(out) :
          /\ out[i].has_text = FLAGS.m_tr
          /\ out[i].text \in (IF FLAGS.m_tr THEN Strings ELSE {""})
          /\ IF FLAGS.m_td /\ (rects[i].w # 0 \/ rects[i].h # 0)
             THEN IsFourCornerLine(out[i].coords, rects[i])
             ELSE IF FLAGS.cc
             THEN /\ Len(out[i].coords) = 2
                  /\ \E r \in [x : 0 .. image.cols, y : 0 .. image.rows,
                               w : {image.cols \div 20}, h : 0 .. image.rows] :
                        /\ IsCenterWindow(r, image)
                        /\ out[i].coords = <<r.x, r.y>>
             ELSE out[i].coords = <<>>

\* C7, witness: a rectified region whose corners lie right of and below the 40 x 20 frame,
\* with its decoded string
C7_Witness ==
    /\ FLAGS.r
    /\ FLAGS.m_td
    /\ FLAGS.m_tr
    /\ image = [cols |-> 40, rows |-> 20]
    /\ \E i \in 1 .. Len(out) :
          /\ out[i].coords = <<33, 19, 33, 15, 39, 15, 39, 19>>
          /\ out[i].text = "ab"

\* C8, as stated: without a detector every frame has exactly one region, the
\* sentinel of zero size and zero rotation, which is never rectified; the
\* recognizer receives the whole frame or, with the centre crop, a fixed
\* centred window.
C8_Original ==
    (~FLAGS.m_td /\ pc = "region") =>
        /\ rects = <<[cx |-> 0, cy |-> 0, w |-> 0, h |-> 0, angle |-> 0]>>
        /\ ridx > 0 =>
              /\ top_left_point_idx = 0
              /\ Len(points) < 4
              /\ IF FLAGS.cc
                 THEN cropped_text.kind = "roi" /\ IsCenterWindow(cropped_text, image)
                 ELSE cropped_text.kind = "whole"

\* C8, amended: without a detector the frame yields the sentinel alone, which
\* is processed unless the cap is 0 and removes it; it is never rectified, and
\* the recognizer receives the whole frame or, with the centre crop, a fixed
\* centred window.
C8_Amended ==
    (~FLAGS.m_td /\ pc = "region") =>
        /\ detected = <<[cx |-> 0, cy |-> 0, w |-> 0, h |-> 0, angle |-> 0]>>
        /\ rects = (IF FLAGS.max_rect_num = 0 THEN <<>> ELSE detected)
        /\ ridx > 0 =>
              /\ top_left_point_idx = 0
              /\ Len(points) < 4
              /\ IF FLAGS.cc
                 THEN cropped_text.kind = "roi" /\ IsCenterWindow(cropped_text, image)
                 ELSE cropped_text.kind = "whole"

\* C8, witness: the sentinel region was cropped to the centre window and recognized
C8_Witness ==
    /\ ~FLAGS.m_td
    /\ FLAGS.cc
    /\ pc = "region"
    /\ ridx = 1
    /\ rects = <<Sentinel>>
    /\ cropped_text = [kind |-> "roi", x |-> 19, y |-> 9, w |-> 2, h |-> 1]
    /\ tr_ncalls # 0

\* C9: when a detector or recognizer call or the width check fails while the
\* regions of a frame are processed, no region line of that frame has been
\* written.
C9_AllOrNothing ==
    (pc = "done" /\ cerr \in {"text detection inference failed",
                              "text recognition inference failed",
                              "The text recognition model does not correspond to alphabet."}) =>
        out = <<>>

====
